---- MODULE Spec2Model ----
(***************************************************************************)
(* Model of the two scripts of coffee-gut-microbiome:                      *)
(*   scripts/download_agp_sample.py     the acquisition procedure          *)
(*   scripts/process_predict1_excel.py  the exploration procedure          *)
(* Text is a TLA+ string where the code never looks inside it, and a tuple *)
(* of one-character strings where it does (formatting, lower(), `in`).     *)
(***************************************************************************)
EXTENDS Integers, Sequences, FiniteSets, TLC

(* ------------------------------ bounds -------------------------------- *)
\* n_samples ranges over 0..MaxSamples
MaxSamples == 2
\* a 200 response carries 0..MaxRows data rows
MaxRows == 2
\* the global generator starts in one of the states 0..MaxEntropy
MaxEntropy == 1
\* size of the abstract generator's state space
RngMod == 64
\* data/raw lists at most MaxFiles entries
MaxFiles == 2
\* a workbook holds at most MaxSheets sheets
MaxSheets == 2

(* --------------------------- Python values ---------------------------- *)
\* Optional[T]: None is the empty tuple, a value v is <<v>>.
None == <<>>
Some(v) == <<v>>
Val(o) == o[1]

\* bool(s) of an Optional[str]: None and "" are falsy.
Truthy(o) == o # None /\ Val(o) # ""

Range(s) == {s[i] : i \in 1..Len(s)}
Min(a, b) == IF a <= b THEN a ELSE b

DigitChars == <<"0", "1", "2", "3", "4", "5", "6", "7", "8", "9">>

\* str(i) of an int i >= 0, as a tuple of characters.
RECURSIVE Digits(_)
Digits(i) == IF i < 10 THEN <<DigitChars[i + 1]>>
             ELSE Digits(i \div 10) \o <<DigitChars[(i % 10) + 1]>>

\* str(i) of any int.
IntStr(i) == IF i < 0 THEN <<"-">> \o Digits(-i) ELSE Digits(i)

\* format(i, "0<w>d") for i >= 0: zero-padded to at least w characters.
ZeroPad(i, w) ==
    LET d == Digits(i)
    IN  [k \in 1..(IF Len(d) < w THEN w - Len(d) ELSE 0) |-> "0"] \o d

(* ------------------- the global generator np.random ------------------- *)
RngStates == 0..(RngMod - 1)

\* np.random.seed(seed): the state depends on the seed alone.
np_random_seed_unseeded(g, seed) == g
np_random_seed(g, seed) == seed % RngMod

\* the k-th (0-based) raw variate drawn from state g
Raw(g, k) == (37 * ((g + k) % RngMod) + 11) % RngMod
\* the state after k draws
Advance(g, k) == (g + k) % RngMod

randint(low, high, raw) == low + (raw % (high - low))
choice(a, raw) == a[(raw % Len(a)) + 1]
\* normal(25, 5) in tenths, then .astype(int) truncates
normal_astype_int(raw) == (250 + (raw % 301) - 150) \div 10
negative_binomial(raw) == raw % 16

(* ------------------------------ tables -------------------------------- *)
\* A DataFrame: the index (row identifiers) and its name, the column labels,
\* each column's dtype, and the cells row by row.
DataFrame(index_name, index, columns, dtypes, data) ==
    [index_name |-> index_name, index |-> index, columns |-> columns,
     dtypes |-> dtypes, data |-> data]

\* DataFrame.to_csv(path, sep='\t'): the header line (index name, then the
\* column labels) and one line per row (row identifier, then the cells as
\* text).  The result is the whole content of the file.
to_csv(df) ==
    [header |-> <<df.index_name>> \o df.columns,
     lines  |-> [i \in 1..Len(df.index) |->
                    <<df.index[i]>> \o
                    [j \in 1..Len(df.columns) |->
                        IF df.dtypes[j] = "int" THEN IntStr(df.data[i][j])
                        ELSE df.data[i][j]]]]

\* What a reader of a written file sees as its column and row identifiers.
FileColumns(f) == Tail(f.header)
FileRows(f) == [i \in 1..Len(f.lines) |-> Head(f.lines[i])]

n_otus == 500

\* [f"Sample_{i:05d}" for i in range(n_samples)]
sample_ids_of(n_samples) ==
    [i \in 1..n_samples |-> <<"Sample_">> \o ZeroPad(i - 1, 5)]
\* [f"OTU_{i:04d}" for i in range(n_otus)]
otu_ids == [i \in 1..n_otus |-> <<"OTU_">> \o ZeroPad(i - 1, 4)]

phyla    == <<"Firmicutes", "Bacteroidetes", "Proteobacteria", "Actinobacteria">>
classes  == <<"Clostridia", "Bacteroidia", "Gammaproteobacteria", "Actinobacteria">>
orders   == <<"Clostridiales", "Bacteroidales", "Enterobacteriales", "Bifidobacteriales">>
families == <<"Lachnospiraceae", "Bacteroidaceae", "Enterobacteriaceae", "Bifidobacteriaceae">>
genera   == <<"Roseburia", "Bacteroides", "Escherichia", "Bifidobacterium">>
species  == <<"faecalis", "thetaiotaomicron", "coli", "longum">>

\* The feature table over the given sample identifiers, its n_otus * n cells
\* drawn row by row from generator state g.
make_feature_table(g, sample_ids) ==
    LET n == Len(sample_ids)
    IN  DataFrame("#OTU ID", otu_ids, sample_ids, [j \in 1..n |-> "int"],
            [i \in 1..n_otus |-> [j \in 1..n |->
                negative_binomial(Raw(g, (i - 1) * n + (j - 1)))]])

\* The taxonomy table: six draws per OTU, one per rank, from state g.
make_taxonomy(g) ==
    DataFrame("#OTU ID", otu_ids, <<"Taxonomy">>, <<"object">>,
        [i \in 1..n_otus |->
            LET k == 6 * (i - 1)
            IN  << <<"k__Bacteria",
                     ";p__", choice(phyla, Raw(g, k)),
                     ";c__", choice(classes, Raw(g, k + 1)),
                     ";o__", choice(orders, Raw(g, k + 2)),
                     ";f__", choice(families, Raw(g, k + 3)),
                     ";g__", choice(genera, Raw(g, k + 4)),
                     ";s__", choice(species, Raw(g, k + 5))>> >>])

\* create_sample_data(n_samples), called with the global generator in state
\* g: the three tables, and the state the generator is left in.
create_sample_data(g, n_samples) ==
    LET n  == n_samples
        g0 == np_random_seed(g, 42)
        sample_ids == sample_ids_of(n)
        metadata ==
            DataFrame("#SampleID", sample_ids,
                <<"age", "gender", "country", "sample_type", "diet_type",
                  "coffee_consumption", "antibiotics_past_year", "bmi">>,
                <<"int", "object", "object", "object", "object",
                  "object", "object", "int">>,
                [i \in 1..n |->
                    <<randint(18, 80, Raw(g0, i - 1)),
                      choice(<<"male", "female">>, Raw(g0, n + i - 1)),
                      choice(<<"USA", "Canada", "UK", "Australia">>, Raw(g0, 2 * n + i - 1)),
                      "Stool",
                      choice(<<"Omnivore", "Vegetarian", "Vegan">>, Raw(g0, 3 * n + i - 1)),
                      choice(<<"none", "occasional", "daily">>, Raw(g0, 4 * n + i - 1)),
                      choice(<<"Yes", "No">>, Raw(g0, 5 * n + i - 1)),
                      normal_astype_int(Raw(g0, 6 * n + i - 1))>>])
        g1 == Advance(g0, 7 * n)
        g2 == Advance(g1, n_otus * n)
    IN  [metadata      |-> metadata,
         feature_table |-> make_feature_table(g1, sample_ids),
         taxonomy      |-> make_taxonomy(g2),
         rng           |-> Advance(g2, 6 * n_otus)]

(* ------------------------- the remote service ------------------------- *)
RemoteIds == {<<"10317.", "A">>, <<"10317.", "B">>}
RemoteHeader == <<"sample_name", "env_package">>

\* Sequences of length n over S, and those without repetition.
SeqsOfLen(S, n) == [1..n -> S]
InjSeqs(S, n) == {q \in [1..n -> S] : \A i, j \in 1..n : q[i] = q[j] => i = j}

\* response.text: the lines of the body, each split at the tabs; <<>> is the
\* empty body.
Bodies ==
    {<<>>} \cup
    {<<RemoteHeader>> \o rows :
        rows \in UNION {SeqsOfLen({<<id, "human-gut">> : id \in RemoteIds}, k) :
                            k \in 0..MaxRows}}

\* What requests.get(endpoint, auth=auth, timeout=30) does: it raises, or it
\* returns a response.
Responses ==
    {[raised |-> TRUE, status_code |-> 0, text |-> <<>>]} \cup
    [raised : {FALSE}, status_code : {200, 401, 500}, text : Bodies]

\* pd.read_csv(io.StringIO(text), sep='\t', index_col=0) of a non-empty
\* text: the first column is the index.
read_csv(text) ==
    LET header == Head(text)
        rows   == Tail(text)
    IN  DataFrame(Head(header), [i \in 1..Len(rows) |-> Head(rows[i])],
                  Tail(header), [j \in 1..(Len(header) - 1) |-> "object"],
                  [i \in 1..Len(rows) |-> Tail(rows[i])])

\* df.sample(n=limit, random_state=42): the rows at the positions locs that
\* the private generator picks, without replacement.
sample(df, locs) ==
    [df EXCEPT !.index = [k \in 1..Len(locs) |-> df.index[locs[k]]],
               !.data  = [k \in 1..Len(locs) |-> df.data[locs[k]]]]

\* The positions df.sample may pick for a table of n rows.
SampleLocs(n, limit) == IF n > limit THEN InjSeqs(1..n, limit) ELSE {<<>>}

\* fetch_samples_with_auth, given what the GET did and what sample picks.
fetch_samples_with_auth_accepts_any_status(resp, limit, locs) ==
    IF resp.raised \/ resp.text = <<>> THEN None
    ELSE LET df == read_csv(resp.text)
         IN  Some(IF Len(df.index) > limit THEN sample(df, locs) ELSE df)
fetch_samples_with_auth_no_limit(resp, limit, locs) ==
    IF resp.raised THEN None
    ELSE IF resp.status_code = 200
    THEN IF resp.text = <<>> THEN None ELSE Some(read_csv(resp.text))
    ELSE None
fetch_samples_with_auth(resp, limit, locs) ==
    IF resp.raised THEN None                          \* except Exception
    ELSE IF resp.status_code = 200
    THEN IF resp.text = <<>> THEN None                \* read_csv raised
         ELSE LET df == read_csv(resp.text)
              IN  Some(IF Len(df.index) > limit THEN sample(df, locs) ELSE df)
    ELSE None                                         \* 401, or any other

\* get_qiita_credentials(): os.getenv of the two variables.
get_qiita_credentials(e) ==
    IF Truthy(e.QIITA_USERNAME) /\ Truthy(e.QIITA_PASSWORD)
    THEN <<e.QIITA_USERNAME, e.QIITA_PASSWORD>> ELSE <<None, None>>

(* ------------------------------- state -------------------------------- *)
FileNames == <<"metadata.tsv", "feature-table.tsv", "taxonomy.tsv">>

VARIABLES
    env,            \* os.environ: the two credential variables
    rng,            \* the state of the global generator np.random
    files,          \* data/raw: file name -> content, None when absent
    pc,             \* where download_agp_sample is
    n_samples, use_auth,            \* its arguments
    credentials,    \* username, password
    metadata, feature_table, taxonomy,   \* its locals, None when unbound
    response,       \* what the GET of this invocation did, None if none
    http_requests,  \* GETs issued in this invocation
    writes,         \* the files written in this invocation, in order
    source          \* which branch of `if metadata is None` ran

acq_vars == <<env, rng, files, pc, n_samples, use_auth, credentials,
              metadata, feature_table, taxonomy, response, http_requests,
              writes, source>>

\* What an earlier run may have left at an output path.
StaleFile == [header |-> <<"#SampleID", "age">>,
              lines |-> << <<"Sample_old", <<"3", "0">> >> >>]

EnvValues == {None, Some(""), Some("alice")}

AcqInit ==
    /\ env \in [QIITA_USERNAME : EnvValues, QIITA_PASSWORD : EnvValues]
    /\ rng \in 0..MaxEntropy
    /\ \E stale \in BOOLEAN :
         files = [f \in Range(FileNames) |->
                    IF stale THEN Some(StaleFile) ELSE None]
    /\ pc = "idle"
    /\ n_samples = 0
    /\ use_auth = TRUE
    /\ credentials = <<None, None>>
    /\ metadata = None /\ feature_table = None /\ taxonomy = None
    /\ response = None
    /\ http_requests = 0
    /\ writes = <<>>
    /\ source = "undecided"

(* ------------------- process_predict1_excel.py ------------------------ *)
UpperChars == <<"A", "B", "C", "D", "E", "F", "G", "H", "I", "J", "K", "L", "M",
                "N", "O", "P", "Q", "R", "S", "T", "U", "V", "W", "X", "Y", "Z">>
LowerChars == <<"a", "b", "c", "d", "e", "f", "g", "h", "i", "j", "k", "l", "m",
                "n", "o", "p", "q", "r", "s", "t", "u", "v", "w", "x", "y", "z">>

\* str.lower()
Lower(s) ==
    [i \in 1..Len(s) |->
        IF \E k \in 1..26 : UpperChars[k] = s[i]
        THEN LowerChars[CHOOSE k \in 1..26 : UpperChars[k] = s[i]]
        ELSE s[i]]

\* `word in s` for two strings
Contains(s, word) ==
    \E i \in 1..(Len(s) - Len(word) + 1) :
        SubSeq(s, i, i + Len(word) - 1) = word

microbiome_words ==
    << <<"o", "t", "u">>, <<"a", "s", "v">>,
       <<"a", "b", "u", "n", "d", "a", "n", "c", "e">>,
       <<"m", "i", "c", "r", "o", "b", "i", "o", "m", "e">>,
       <<"t", "a", "x", "a">>, <<"s", "p", "e", "c", "i", "e", "s">> >>
metadata_words ==
    << <<"m", "e", "t", "a", "d", "a", "t", "a">>, <<"s", "a", "m", "p", "l", "e">>,
       <<"p", "a", "r", "t", "i", "c", "i", "p", "a", "n", "t">>,
       <<"d", "e", "m", "o", "g", "r", "a", "p", "h", "i", "c">>,
       <<"d", "i", "e", "t">> >>
coffee_words ==
    << <<"c", "o", "f", "f", "e", "e">>, <<"c", "a", "f", "f", "e", "i", "n", "e">>,
       <<"b", "e", "v", "e", "r", "a", "g", "e">> >>

\* any(word in name.lower() for word in words)
any_word_in_case_sensitive(name, words) ==
    \E k \in 1..Len(words) : Contains(name, words[k])
any_word_in(name, words) ==
    \E k \in 1..Len(words) : Contains(Lower(name), words[k])

\* extract_microbiome_data: the two lists it returns.  `rest` is the part of
\* sheet_names still to visit, in order.
RECURSIVE classify_independently(_, _, _)
classify_independently(rest, micro, meta) ==
    IF rest = <<>> THEN [microbiome_sheets |-> micro, metadata_sheets |-> meta]
    ELSE LET sheet == Head(rest)
         IN  classify_independently(Tail(rest),
                IF any_word_in(sheet, microbiome_words)
                THEN Append(micro, sheet) ELSE micro,
                IF any_word_in(sheet, metadata_words)
                THEN Append(meta, sheet) ELSE meta)
RECURSIVE classify(_, _, _)
classify(rest, micro, meta) ==
    IF rest = <<>> THEN [microbiome_sheets |-> micro, metadata_sheets |-> meta]
    ELSE LET sheet == Head(rest)
         IN  IF any_word_in(sheet, microbiome_words)
             THEN classify(Tail(rest), Append(micro, sheet), meta)
             ELSE IF any_word_in(sheet, metadata_words)
             THEN classify(Tail(rest), micro, Append(meta, sheet))
             ELSE classify(Tail(rest), micro, meta)

extract_microbiome_data_independent(names) == classify_independently(names, <<>>, <<>>)
extract_microbiome_data(names) == classify(names, <<>>, <<>>)

\* The files data/raw may list: name and suffix.
DirEntries == {<<"predict1", ".xlsx">>, <<"legacy", ".xls">>, <<"notes", ".csv">>}

\* list(data_dir.glob("*" + suffix)), in listing order
glob(listing, suffix) == SelectSeq(listing, LAMBDA e : e[2] = suffix)

\* int(choice): <<"ok", value>> for an optional sign and one or more digits,
\* <<"ValueError", 0>> otherwise.
IsDigit(c) == \E k \in 1..10 : DigitChars[k] = c
DigitValue(c) == (CHOOSE k \in 1..10 : DigitChars[k] = c) - 1
RECURSIVE DigitsValue(_)
DigitsValue(d) ==
    IF d = <<>> THEN 0
    ELSE 10 * DigitsValue(SubSeq(d, 1, Len(d) - 1)) + DigitValue(d[Len(d)])
int(text) ==
    LET signed == text # <<>> /\ Head(text) \in {"-", "+"}
        digits == IF signed THEN Tail(text) ELSE text
    IN  IF digits # <<>> /\ \A i \in 1..Len(digits) : IsDigit(digits[i])
        THEN <<"ok", IF signed /\ Head(text) = "-" THEN -DigitsValue(digits)
                     ELSE DigitsValue(digits)>>
        ELSE <<"ValueError", 0>>

\* a[k] for a list a and an int k: negative k counts from the end.
list_getitem(a, k) ==
    IF 0 <= k /\ k < Len(a) THEN <<"ok", a[k + 1]>>
    ELSE IF -Len(a) <= k /\ k < 0 THEN <<"ok", a[Len(a) + k + 1]>>
    ELSE <<"IndexError", None>>

\* What may be typed at the prompt.
Answers ==
    {<<"a", "b", "c">>, <<>>} \cup
    {Digits(k) : k \in 0..(MaxFiles + 1)} \cup
    {<<"-">> \o Digits(k) : k \in 1..(MaxFiles + 1)}

\* find_excel_file(data_dir) when `answer` is what input() returns if it is
\* called: what the call does ("return" or "raise"), the value returned, and
\* whether it prompted.
find_excel_file_unchecked(listing, answer) ==
    LET excel_files == glob(listing, ".xlsx") \o glob(listing, ".xls")
        got == list_getitem(excel_files, 0)
    IN  IF got[1] = "ok"
        THEN [does |-> "return", value |-> Some(got[2]), prompted |-> FALSE]
        ELSE [does |-> "raise", value |-> None, prompted |-> FALSE]
find_excel_file(listing, answer) ==
    LET excel_files == glob(listing, ".xlsx") \o glob(listing, ".xls")
    IN  IF excel_files = <<>>
        THEN [does |-> "return", value |-> None, prompted |-> FALSE]
        ELSE IF Len(excel_files) > 1
        THEN LET n == int(answer)
                 got == list_getitem(excel_files, n[2] - 1)
             IN  IF n[1] = "ok" /\ got[1] = "ok"
                 THEN [does |-> "return", value |-> Some(got[2]), prompted |-> TRUE]
                 ELSE [does |-> "raise", value |-> None, prompted |-> TRUE]
        ELSE [does |-> "return", value |-> Some(excel_files[1]), prompted |-> FALSE]

\* Sheet names a workbook may hold.
OTU_Abundance == <<"O", "T", "U", "_", "A", "b", "u", "n", "d", "a", "n", "c", "e">>
Participant_Metadata == <<"P", "a", "r", "t", "i", "c", "i", "p", "a", "n", "t", "_",
                          "M", "e", "t", "a", "d", "a", "t", "a">>
Species_Diet == <<"S", "p", "e", "c", "i", "e", "s", "_", "D", "i", "e", "t">>
Sheet1 == <<"S", "h", "e", "e", "t", "1">>
SheetNames == {OTU_Abundance, Participant_Metadata, Species_Diet, Sheet1}

\* Column labels a sheet may hold.
ColumnLists == { << <<"a", "g", "e">> >>,
                 << <<"a", "g", "e">>, <<"C", "o", "f", "f", "e", "e", "_", "c", "u", "p", "s">> >> }

\* A workbook file: whether pd.ExcelFile can open it, its sheet names (no
\* name twice), and the sheets pd.read_excel cannot read.
Workbooks ==
    UNION {{[opens |-> o, sheet_names |-> q, unreadable |-> u] :
                o \in BOOLEAN, u \in SUBSET Range(q)} :
           q \in UNION {InjSeqs(SheetNames, k) : k \in 0..MaxSheets}}

VARIABLES
    listing,        \* the entries of data/raw
    xpc,            \* where main is
    prompted,       \* whether input() was called
    excel_path,     \* main's excel_path, None when unbound or None
    workbook,       \* the content of the file at excel_path, None before it is read
    sheet_names,    \* main's sheet_names
    microbiome_sheets, metadata_sheets,   \* main's two lists
    coffee_found,   \* extract_coffee_data's flag
    ran,            \* the functions main has called
    report_printed  \* whether the NEXT STEPS report was printed

exp_vars == <<listing, xpc, prompted, excel_path, workbook, sheet_names,
              microbiome_sheets, metadata_sheets, coffee_found, ran,
              report_printed>>

ExpInit ==
    /\ listing \in UNION {InjSeqs(DirEntries, k) : k \in 0..MaxFiles}
    /\ xpc = "start"
    /\ prompted = FALSE
    /\ excel_path = None
    /\ workbook = None
    /\ sheet_names = <<>>
    /\ microbiome_sheets = <<>> /\ metadata_sheets = <<>>
    /\ coffee_found = FALSE
    /\ ran = {}
    /\ report_printed = FALSE

(* ---------------------- download_agp_sample --------------------------- *)
\* `if use_auth:` ... `if username and password:` -- whether the fetch runs.
should_fetch_without_test(ua, creds) == ua
should_fetch(ua, creds) == ua /\ Truthy(creds[1]) /\ Truthy(creds[2])

\* The three tables after `if metadata is None: ... else: ...`, and the
\* generator's state, given the metadata the fetch left (None or a table).
choose_tables_unaligned(md, g, n) ==
    LET r == create_sample_data(g, n)
    IN  IF md = None THEN r ELSE [r EXCEPT !.metadata = Val(md)]
choose_tables(md, g, n) ==
    IF md = None
    THEN create_sample_data(g, n)
    ELSE LET sample_ids == Val(md).index
             g1 == Advance(g, n_otus * Len(sample_ids))
         IN  [metadata      |-> Val(md),
              feature_table |-> make_feature_table(g, sample_ids),
              taxonomy      |-> make_taxonomy(g1),
              rng           |-> Advance(g1, 6 * n_otus)]

\* Entry: the output directory is made and metadata is set to None.
Begin(n, ua) ==
    /\ pc = "idle"
    /\ n_samples' = n /\ use_auth' = ua
    /\ credentials' = <<None, None>>
    /\ metadata' = None /\ feature_table' = None /\ taxonomy' = None
    /\ response' = None /\ http_requests' = 0 /\ writes' = <<>>
    /\ source' = "undecided"
    /\ pc' = "auth"
    /\ UNCHANGED <<env, rng, files>>
    /\ UNCHANGED exp_vars

\* `if use_auth: username, password = get_qiita_credentials()` and the test
\* of the two.
Authenticate ==
    /\ pc = "auth"
    /\ credentials' = IF use_auth THEN get_qiita_credentials(env)
                      ELSE credentials
    /\ pc' = IF should_fetch(use_auth, credentials') THEN "fetch" ELSE "choose"
    /\ UNCHANGED <<env, rng, files, n_samples, use_auth, metadata,
                   feature_table, taxonomy, response, http_requests, writes,
                   source>>
    /\ UNCHANGED exp_vars

\* metadata = fetch_samples_with_auth(username, password, STUDY_ID,
\* limit=n_samples): one GET, then the parse and the downsampling.
Fetch ==
    /\ pc = "fetch"
    /\ \E resp \in Responses :
         \E locs \in SampleLocs(IF resp.text = <<>> THEN 0
                                ELSE Len(resp.text) - 1, n_samples) :
            /\ response' = Some(resp)
            /\ metadata' = fetch_samples_with_auth(resp, n_samples, locs)
    /\ http_requests' = http_requests + 1
    /\ pc' = "choose"
    /\ UNCHANGED <<env, rng, files, n_samples, use_auth, credentials,
                   feature_table, taxonomy, writes, source>>
    /\ UNCHANGED exp_vars

\* `if metadata is None:` the synthetic tables, `else:` a feature table and
\* a taxonomy for the fetched metadata.
Choose ==
    /\ pc = "choose"
    /\ LET t == choose_tables(metadata, rng, n_samples)
       IN  /\ metadata' = Some(t.metadata)
           /\ feature_table' = Some(t.feature_table)
           /\ taxonomy' = Some(t.taxonomy)
           /\ rng' = t.rng
    /\ source' = IF metadata = None THEN "synthetic" ELSE "fetched"
    /\ pc' = "save_metadata"
    /\ UNCHANGED <<env, files, n_samples, use_auth, credentials,
                   response, http_requests, writes>>
    /\ UNCHANGED exp_vars

\* <table>.to_csv(output_dir / name, sep='\t'): the file is replaced, or the
\* write raises and the exception leaves download_agp_sample.
Save(at, table, name, next) ==
    /\ pc = at
    /\ \E ok \in BOOLEAN :
         IF ok
         THEN /\ files' = [files EXCEPT ![name] = Some(to_csv(Val(table)))]
              /\ writes' = Append(writes, name)
              /\ pc' = next
         ELSE /\ pc' = "raised"
              /\ UNCHANGED <<files, writes>>
    /\ UNCHANGED <<env, rng, n_samples, use_auth, credentials, metadata,
                   feature_table, taxonomy, response, http_requests, source>>
    /\ UNCHANGED exp_vars

SaveMetadata == Save("save_metadata", metadata, "metadata.tsv", "save_feature_table")
SaveFeatureTable_writes_taxonomy == Save("save_feature_table", taxonomy, "taxonomy.tsv", "save_taxonomy")
SaveFeatureTable == Save("save_feature_table", feature_table, "feature-table.tsv", "save_taxonomy")
SaveTaxonomy == Save("save_taxonomy", taxonomy, "taxonomy.tsv", "done")

AcqNext ==
    \/ \E n \in 0..MaxSamples, ua \in BOOLEAN : Begin(n, ua)
    \/ Authenticate
    \/ Fetch
    \/ Choose
    \/ SaveMetadata
    \/ SaveFeatureTable
    \/ SaveTaxonomy

(* ------------------------------- main --------------------------------- *)
\* setup_directories(), then excel_path = find_excel_file(raw_dir) and the
\* `if excel_path is None: return`.
main_find_excel_file ==
    /\ xpc = "start"
    /\ \E answer \in Answers :
         LET r == find_excel_file(listing, answer)
         IN  /\ prompted' = r.prompted
             /\ excel_path' = r.value
             /\ xpc' = IF r.does = "raise" THEN "raised"
                       ELSE IF r.value = None THEN "returned"
                       ELSE "explore"
    /\ ran' = {"setup_directories", "find_excel_file"}
    /\ UNCHANGED <<listing, workbook, sheet_names, microbiome_sheets,
                   metadata_sheets, coffee_found, report_printed>>
    /\ UNCHANGED acq_vars

\* sheet_names = explore_excel_sheets(excel_path): pd.ExcelFile opens the
\* workbook outside any try; each sheet's preview is read inside one.
main_explore_excel_sheets ==
    /\ xpc = "explore"
    /\ \E wb \in Workbooks :
         /\ workbook' = Some(wb)
         /\ IF wb.opens
            THEN sheet_names' = wb.sheet_names /\ xpc' = "classify"
            ELSE sheet_names' = sheet_names /\ xpc' = "raised"
    /\ ran' = ran \cup {"explore_excel_sheets"}
    /\ UNCHANGED <<listing, prompted, excel_path, microbiome_sheets,
                   metadata_sheets, coffee_found, report_printed>>
    /\ UNCHANGED acq_vars

\* microbiome_sheets, metadata_sheets = extract_microbiome_data(...)
main_extract_microbiome_data ==
    /\ xpc = "classify"
    /\ LET r == extract_microbiome_data(sheet_names)
       IN  /\ microbiome_sheets' = r.microbiome_sheets
           /\ metadata_sheets' = r.metadata_sheets
    /\ ran' = ran \cup {"extract_microbiome_data"}
    /\ xpc' = "coffee"
    /\ UNCHANGED <<listing, prompted, excel_path, workbook, sheet_names,
                   coffee_found, report_printed>>
    /\ UNCHANGED acq_vars

\* extract_coffee_data(excel_path, sheet_names): every sheet is read inside a
\* try; cols[i] are the column labels of sheet i.
main_extract_coffee_data ==
    /\ xpc = "coffee"
    /\ \E cols \in [1..Len(sheet_names) -> ColumnLists] :
         coffee_found' =
            \E i \in 1..Len(sheet_names) :
                /\ sheet_names[i] \notin Val(workbook).unreadable
                /\ \E c \in 1..Len(cols[i]) : any_word_in(cols[i][c], coffee_words)
    /\ ran' = ran \cup {"extract_coffee_data"}
    /\ xpc' = "report"
    /\ UNCHANGED <<listing, prompted, excel_path, workbook, sheet_names,
                   microbiome_sheets, metadata_sheets, report_printed>>
    /\ UNCHANGED acq_vars

\* The NEXT STEPS report, and main returns.
main_report ==
    /\ xpc = "report"
    /\ report_printed' = TRUE
    /\ xpc' = "returned"
    /\ UNCHANGED <<listing, prompted, excel_path, workbook, sheet_names,
                   microbiome_sheets, metadata_sheets, coffee_found, ran>>
    /\ UNCHANGED acq_vars

ExpNext ==
    \/ main_find_excel_file
    \/ main_explore_excel_sheets
    \/ main_extract_microbiome_data
    \/ main_extract_coffee_data
    \/ main_report

(* --------------------------- specifications --------------------------- *)
vars == <<acq_vars, exp_vars>>

\* The two scripts never run in one process: each specification runs one of
\* them and holds the other's state at a fixed initial value.
AcqParked ==
    /\ AcqInit
    /\ env = [QIITA_USERNAME |-> None, QIITA_PASSWORD |-> None]
    /\ rng = 0
    /\ files = [f \in Range(FileNames) |-> None]
ExpParked ==
    /\ ExpInit
    /\ listing = <<>>

\* scripts/download_agp_sample.py
Init == AcqInit /\ ExpParked
Next == AcqNext
Spec == Init /\ [][Next]_vars

\* scripts/process_predict1_excel.py
InitExplore == ExpInit /\ AcqParked
SpecExplore == InitExplore /\ [][ExpNext]_vars

(* ------------------------------ properties ---------------------------- *)
PostChoose == pc \in {"save_metadata", "save_feature_table", "save_taxonomy",
                      "done", "raised"}

TableOf(t, name) ==
    CASE name = "metadata.tsv" -> t.metadata
      [] name = "feature-table.tsv" -> t.feature_table
      [] name = "taxonomy.tsv" -> t.taxonomy

\* The three tables download_agp_sample holds once the choice is made.
InMemory == [metadata |-> Val(metadata), feature_table |-> Val(feature_table),
             taxonomy |-> Val(taxonomy)]

InMemoryAre(t) ==
    /\ InMemory.metadata = t.metadata
    /\ InMemory.feature_table = t.feature_table
    /\ InMemory.taxonomy = t.taxonomy

\* Every file written so far in this invocation holds the table of t that
\* belongs at its path.
WrittenFrom(t) ==
    \A name \in Range(writes) : files[name] = Some(to_csv(TableOf(t, name)))

\* The tables held and the files written are those of one call of
\* create_sample_data(n_samples).
AllSynthetic ==
    /\ source = "synthetic"
    /\ \E g \in RngStates :
         LET t == create_sample_data(g, n_samples)
         IN  InMemoryAre(t) /\ WrittenFrom(t)

CredentialsAbsent ==
    ~use_auth \/ ~Truthy(env.QIITA_USERNAME) \/ ~Truthy(env.QIITA_PASSWORD)

\* C1: when QIITA_USERNAME or QIITA_PASSWORD is unset or empty, or use_auth
\* is False, the invocation issues no HTTP request, never enters
\* fetch_samples_with_auth, and whatever it writes are the tables of
\* create_sample_data(n_samples).
C1_NoCredentialsNoRequest ==
    (pc # "idle" /\ CredentialsAbsent) =>
        /\ http_requests = 0
        /\ response = None
        /\ pc # "fetch"
        /\ PostChoose => AllSynthetic

C1_Witness ==
    /\ pc = "done"
    /\ use_auth
    /\ env.QIITA_USERNAME = Some("alice")
    /\ env.QIITA_PASSWORD = Some("")
    /\ writes = FileNames

\* The GET of this invocation ended in a failure: it raised, the status was
\* not 200, or the body could not be parsed.
FetchFailed ==
    /\ response # None
    /\ \/ Val(response).raised
       \/ Val(response).status_code # 200
       \/ Val(response).text = <<>>

\* C2: when the single GET fails in any way, fetch_samples_with_auth returns
\* None, no second request is made, and all three outputs are those of
\* create_sample_data(n_samples): nothing of the response is written.
C2_FailedFetchFallsBack ==
    FetchFailed =>
        /\ http_requests = 1
        /\ pc = "choose" => metadata = None
        /\ PostChoose => AllSynthetic

C2_Witness ==
    /\ pc = "done"
    /\ response # None
    /\ ~Val(response).raised
    /\ Val(response).status_code = 500
    /\ Len(Val(response).text) > 1
    /\ writes = FileNames

Written(name) == name \in Range(writes)

\* C3: of the files written in one invocation, the feature table's column
\* identifiers are the metadata's row identifiers, in the same order, and the
\* taxonomy's row identifiers are the feature table's, OTU_0000 .. OTU_0499.
C3_IdentifiersAlign ==
    /\ (Written("metadata.tsv") /\ Written("feature-table.tsv")) =>
          FileColumns(Val(files["feature-table.tsv"]))
              = FileRows(Val(files["metadata.tsv"]))
    /\ (Written("feature-table.tsv") /\ Written("taxonomy.tsv")) =>
          LET rows == FileRows(Val(files["feature-table.tsv"]))
          IN  /\ FileRows(Val(files["taxonomy.tsv"])) = rows
              /\ Len(rows) = 500
              /\ rows[1] = <<"OTU_", "0", "0", "0", "0">>
              /\ rows[12] = <<"OTU_", "0", "0", "1", "1">>
              /\ rows[500] = <<"OTU_", "0", "4", "9", "9">>

C3_Witness ==
    /\ pc = "done"
    /\ source = "fetched"
    /\ Len(Val(metadata).index) = 2
    /\ writes = FileNames

\* The GET of this invocation returned 200 with a body that parses.
FetchSucceeded ==
    /\ response # None
    /\ ~Val(response).raised
    /\ Val(response).status_code = 200
    /\ Val(response).text # <<>>

\* C8: a 200 response whose table has N rows yields min(N, limit) rows: the
\* table itself when N <= limit, and limit rows at distinct positions of it
\* when N > limit; the metadata written on the fetched path has at most
\* n_samples rows.
C8_FetchedRowsAreLimited ==
    /\ FetchSucceeded =>
          LET df == read_csv(Val(response).text)
              N  == Len(df.index)
          IN  /\ metadata # None
              /\ Len(Val(metadata).index) = Min(N, n_samples)
              /\ Len(Val(metadata).data) = Min(N, n_samples)
              /\ N <= n_samples => Val(metadata) = df
              /\ N > n_samples =>
                    \E locs \in InjSeqs(1..N, n_samples) :
                        \A k \in 1..n_samples :
                            /\ Val(metadata).index[k] = df.index[locs[k]]
                            /\ Val(metadata).data[k] = df.data[locs[k]]
    /\ (source = "fetched" /\ Written("metadata.tsv")) =>
          Len(Val(files["metadata.tsv"]).lines) <= n_samples

C8_Witness ==
    /\ pc = "done"
    /\ source = "fetched"
    /\ FetchSucceeded
    /\ n_samples = 1
    /\ Len(Val(response).text) = 3
    /\ writes = FileNames

\* C9: on the synthetic path the tables are the same whatever state the
\* global generator was in before the call, and the files written hold
\* exactly those tables.
C9_SyntheticIsDeterministic ==
    (PostChoose /\ source = "synthetic") =>
        /\ pc = "save_metadata" =>
              \A g \in 0..MaxEntropy :
                  InMemoryAre(create_sample_data(g, n_samples))
        /\ WrittenFrom(InMemory)

C9_Witness ==
    /\ pc = "done"
    /\ source = "synthetic"
    /\ n_samples = 2
    /\ writes = FileNames

\* C10: the files are written once each in the order metadata.tsv,
\* feature-table.tsv, taxonomy.tsv, each replacing what was at its path;
\* an invocation that returns has written all three; none is written before
\* the choice between fetched and synthetic data.
C10_WritesInOrder ==
    /\ \E k \in 0..3 : writes = SubSeq(FileNames, 1, k)
    /\ pc = "done" =>
          /\ writes = FileNames
          /\ source \in {"fetched", "synthetic"}
          /\ WrittenFrom(InMemory)
    /\ pc = "raised" => Len(writes) < 3
    /\ source = "undecided" =>
          /\ writes = <<>>
          /\ \A name \in Range(FileNames) : files[name] \in {None, Some(StaleFile)}
    /\ \A name \in Range(FileNames) :
          ~Written(name) => files[name] \in {None, Some(StaleFile)}

C10_Witness ==
    /\ pc = "done"
    /\ source = "fetched"
    /\ writes = FileNames
    /\ \A name \in Range(FileNames) : files[name] # Some(StaleFile)

AfterClassify == xpc \in {"coffee", "report", "returned"} /\ workbook # None

InList(x, list) == \E i \in 1..Len(list) : list[i] = x
MatchesMicrobiome(sheet) ==
    \E w \in Range(microbiome_words) : Contains(Lower(sheet), w)
MatchesMetadata(sheet) ==
    \E w \in Range(metadata_words) : Contains(Lower(sheet), w)

\* C4, as claimed: the two classifications are independent, so a sheet whose
\* name holds a keyword of each set is in both lists, and one with no keyword
\* is in neither.
C4_SheetMayBeInBoth ==
    AfterClassify =>
        \A sheet \in Range(sheet_names) :
            /\ (MatchesMicrobiome(sheet) /\ MatchesMetadata(sheet)) =>
                  InList(sheet, microbiome_sheets) /\ InList(sheet, metadata_sheets)
            /\ (~MatchesMicrobiome(sheet) /\ ~MatchesMetadata(sheet)) =>
                  ~InList(sheet, microbiome_sheets) /\ ~InList(sheet, metadata_sheets)

\* C4, amended: the metadata keywords are tried only when no microbiome
\* keyword matched, so no sheet is in both lists: a sheet whose name holds a
\* keyword of each set is in microbiome_sheets only, and one with no keyword
\* is in neither.
C4_SheetInAtMostOneList ==
    AfterClassify =>
        \A sheet \in Range(sheet_names) :
            /\ ~(InList(sheet, microbiome_sheets) /\ InList(sheet, metadata_sheets))
            /\ (MatchesMicrobiome(sheet) /\ MatchesMetadata(sheet)) =>
                  InList(sheet, microbiome_sheets) /\ ~InList(sheet, metadata_sheets)
            /\ (~MatchesMicrobiome(sheet) /\ ~MatchesMetadata(sheet)) =>
                  ~InList(sheet, microbiome_sheets) /\ ~InList(sheet, metadata_sheets)

C4_Witness ==
    /\ xpc = "returned"
    /\ report_printed
    /\ sheet_names = <<Sheet1, Species_Diet>>

\* list keeps the order of the sheets in all, each at most once.
Position(x, all) == CHOOSE i \in 1..Len(all) : all[i] = x
KeepsOrder(list, all) ==
    /\ \A a \in 1..Len(list) : InList(list[a], all)
    /\ \A a, b \in 1..Len(list) :
          a < b => Position(list[a], all) < Position(list[b], all)

\* C5: microbiome_sheets holds exactly the sheets whose lower-cased name
\* contains a microbiome keyword; every sheet of metadata_sheets has a
\* lower-cased name containing a metadata keyword; both keep the input order
\* with no sheet twice; OTU_Abundance is microbiome-indicating and
\* Participant_Metadata metadata-indicating.
C5_ClassificationByKeyword ==
    AfterClassify =>
        /\ Range(microbiome_sheets)
              = {sheet \in Range(sheet_names) : MatchesMicrobiome(sheet)}
        /\ \A sheet \in Range(metadata_sheets) : MatchesMetadata(sheet)
        /\ KeepsOrder(microbiome_sheets, sheet_names)
        /\ KeepsOrder(metadata_sheets, sheet_names)
        /\ InList(OTU_Abundance, sheet_names) =>
              InList(OTU_Abundance, microbiome_sheets)
        /\ InList(Participant_Metadata, sheet_names) =>
              InList(Participant_Metadata, metadata_sheets)

C5_Witness ==
    /\ xpc = "returned"
    /\ report_printed
    /\ microbiome_sheets = <<OTU_Abundance>>
    /\ metadata_sheets = <<Participant_Metadata>>

NoExcelFile == glob(listing, ".xlsx") = <<>> /\ glob(listing, ".xls") = <<>>

\* C6: with no *.xlsx and no *.xls file in data/raw, find_excel_file returns
\* None without prompting and main returns at once: no workbook is opened,
\* none of explore_excel_sheets, extract_microbiome_data, extract_coffee_data
\* runs, and the NEXT STEPS report is not printed.
C6_NoFileAbortsQuietly ==
    (xpc # "start" /\ NoExcelFile) =>
        /\ xpc = "returned"
        /\ ~prompted
        /\ excel_path = None
        /\ workbook = None
        /\ ran = {"setup_directories", "find_excel_file"}
        /\ ~report_printed

C6_Witness ==
    /\ xpc = "returned"
    /\ listing = << <<"notes", ".csv">> >>
    /\ ~report_printed

\* C7, as claimed: every run of main ends by returning normally, whatever is
\* typed at the prompt and whatever state the workbook is in: no exception
\* leaves main.
C7_MainAlwaysReturns == xpc # "raised"

====
